---- MODULE Spec2Model ----
(***************************************************************************)
(* yocto_exporter: a Prometheus exporter for YoctoPuce sensor modules.     *)
(*                                                                         *)
(* The model follows src/yocto_exporter.py.  main() is one sequential      *)
(* process (mpc), collect_gauges() is the routine it calls (cpc), and the  *)
(* HTTP server started by start_http_server() answers scrapes from its own *)
(* thread, concurrently with the collection loop.  The YoctoPuce API is    *)
(* the environment: every call returns some value or raises                *)
(* YAPI_Exception.                                                         *)
(***************************************************************************)
EXTENDS Integers, Sequences, FiniteSets, TLC

\* ---- bounds of the model ------------------------------------------------
MaxCycles  == 3       \* collect_gauges() invocations main makes
MaxScrapes == 1       \* scrapes the HTTP thread answers

Values == {1, 2}      \* readings the sensors can return
Durations == {1, 2}   \* end_time - start_time of one invocation

\* ---- program constants --------------------------------------------------
HTTP_PORT == 8000

Supported     == {"Temperature", "Pressure", "Humidity", "LightSensor"}

\* ---- the attached hardware ----------------------------------------------
\* A module has a friendly name and its functions' types, index 0 first; the
\* types are fixed by the hardware.  What changes from one pass to the next is
\* which modules answer, what the sensors read and which call fails.
Module(name, types) == [name |-> name, types |-> types]

Hardware ==
  { <<Module("a", <<"DataLogger", "Temperature", "Temperature">>)>>,
    <<Module("a", <<"Temperature", "Pressure", "AnButton", "LightSensor">>)>>,
    <<Module("a", <<"DataLogger", "Humidity">>)>>,
    <<Module("a", <<>>), Module("b", <<"DataLogger">>)>> }

SensorMetrics == {"usb_current", "luminosity", "temperature", "pressure",
                  "humidity", "light"}

VARIABLES
  mpc,                 \* position of main()
  cpc,                 \* position of collect_gauges(), "idle" when not called
  exitReason,          \* why the process ended, "" while it runs
  serving,             \* port the HTTP server listens on, 0 before it starts
  store,               \* the gauge children: <<metric, labels>> -> value
  sensor_read_passes,  \* Counter
  yapi_exceptions,     \* Counter
  request_time_count,  \* observations of the request_processing_seconds Summary
  hw,                  \* the attached modules, in the order YAPI lists them
  module,              \* locals of collect_gauges: index in hw, 0 for None
  module_name,
  function_count,
  function_id,
  function_type,
  w,                   \* the gauge write in progress: key, value, return point
  duration,            \* end_time - start_time of the latest invocation, 0 until taken
  in_progress,         \* collect_gauges() invocations entered and not left
  cycles,              \* collect_gauges() invocations made so far
  scrapes,             \* scrapes answered so far
  track,               \* whether the histories of a call's trace are kept
  registered,          \* history: what RegisterHub answered, "" before
  pre,                 \* history: store when the latest invocation was entered
  preCounters,         \* history: the counters and the Summary's count then
  cycleWrites,         \* history: key -> value last set by the latest invocation
  nReturned,           \* history: invocations that returned
  nRaised,             \* history: invocations that raised YAPI_Exception
  lastOutcome,         \* history: how the latest invocation ended
  calls,               \* history: the device calls of the latest invocation
                       \* that returned, in order, with what they returned
  failed,              \* history: the device call that raised in it
  emitted,             \* history: its set() calls, in order
  replay               \* history: the calls of the invocation before the
                       \* latest, while that one returned and the latest has
                       \* had the same answers so far; <<>> otherwise

locals == <<module, module_name, function_count, function_id,
            function_type, w>>
hist   == <<registered, pre, preCounters, cycleWrites, nReturned, nRaised,
            lastOutcome, calls, failed, emitted, replay>>
vars   == <<hw, track, mpc, cpc, exitReason, serving, store, sensor_read_passes,
            yapi_exceptions, request_time_count, locals, duration,
            in_progress, cycles, scrapes, hist>>

NoWrite == [key |-> <<>>, value |-> 0, ret |-> ""]
Empty   == [k \in {} |-> 0]
NoCall  == [op |-> "", m |-> 0, i |-> 0]

\* history: the new value where the trace is kept, the old one where not
Keep(new, old) == IF track THEN new ELSE old

\* ---- the series keys ----------------------------------------------------
\* '%s.current' % module_name, and the like
HardwareId(name, suffix) == name \o "." \o suffix

Key(metric, name, suffix, unit) ==
  <<metric, [hardware_id |-> HardwareId(name, suffix), unit |-> unit]>>

UsbCurrentKey(name) == Key("usb_current", name, "current", "mA")
LuminosityKey(name) == Key("luminosity", name, "luminosity", "%")

FunctionKey_CopyPaste(type, name) ==
  CASE type = "Temperature" -> Key("temperature", name, "temperature", "Celsius")
    [] type = "Pressure"    -> Key("pressure", name, "pressure", "mbar")
    [] type = "Humidity"    -> Key("humidity", name, "pressure", "% RH")
    [] type = "LightSensor" -> Key("light", name, "light", "lux")

\* the four ifs on function_type
FunctionKey(type, name) ==
  CASE type = "Temperature" -> Key("temperature", name, "temperature", "Celsius")
    [] type = "Pressure"    -> Key("pressure", name, "pressure", "mbar")
    [] type = "Humidity"    -> Key("humidity", name, "humidity", "% RH")
    [] type = "LightSensor" -> Key("light", name, "light", "lux")

ReadTimeKey == <<"sensor_read_time", [unit |-> "s"]>>

\* ---- prometheus_client gauges -------------------------------------------
LabelsOf_Clear(s, key) ==
  [k \in {key} \cup {j \in DOMAIN s : j[1] # key[1]} |->
     IF k \in DOMAIN s THEN s[k] ELSE 0]

\* gauge.labels(...): the child of that label set, created at 0 when new
LabelsOf(s, key) ==
  IF key \in DOMAIN s THEN s
  ELSE [k \in DOMAIN s \cup {key} |-> IF k = key THEN 0 ELSE s[k]]

SetOf_Clobber(s, key, value) == [k \in {key} |-> value]

SetOf_Accumulate(s, key, value) ==
  [k \in DOMAIN s \cup {key} |->
     IF k = key THEN (IF k \in DOMAIN s THEN s[k] ELSE 0) + value ELSE s[k]]

SetOf_KeepFirst(s, key, value) ==
  [k \in DOMAIN s \cup {key} |->
     IF k = key
     THEN (IF k \in DOMAIN s /\ s[k] # 0 THEN s[k] ELSE value)
     ELSE s[k]]

\* child.set(value)
SetOf(s, key, value) ==
  [k \in DOMAIN s \cup {key} |-> IF k = key THEN value ELSE s[k]]

\* history: the value last set on key
Record(h, key, value) ==
  [k \in DOMAIN h \cup {key} |-> IF k = key THEN value ELSE h[k]]

Inc_Down(c) == c - 1

\* counter.inc()
Inc(c) == c + 1

\* ---- control flow helpers -----------------------------------------------
RangeStart_Zero == 1 - 1

\* first index of range(1, function_count): 0 is the datalogger
RangeStart == 1

\* the for statement: the body runs while the index is below function_count
ForNext(fid, n) == IF fid < n THEN "function_type" ELSE "next_module"

ResetLocals ==
  /\ module' = 0
  /\ module_name' = ""
  /\ function_count' = 0
  /\ function_id' = 0
  /\ function_type' = ""
  /\ w' = NoWrite

Start ==
  /\ mpc = "register"
  /\ cpc = "idle"
  /\ exitReason = ""
  /\ serving = 0
  /\ store = Empty
  /\ sensor_read_passes = 0
  /\ yapi_exceptions = 0
  /\ request_time_count = 0
  /\ hw \in Hardware
  /\ module = 0
  /\ module_name = ""
  /\ function_count = 0
  /\ function_id = 0
  /\ function_type = ""
  /\ w = NoWrite
  /\ duration = 0
  /\ in_progress = 0
  /\ cycles = 0
  /\ scrapes = 0
  /\ registered = ""
  /\ pre = Empty
  /\ preCounters = [passes |-> 0, exceptions |-> 0, requests |-> 0]
  /\ cycleWrites = Empty
  /\ nReturned = 0
  /\ nRaised = 0
  /\ lastOutcome = "none"
  /\ calls = <<>>
  /\ failed = NoCall
  /\ emitted = <<>>
  /\ replay = <<>>

Init == Start /\ track = TRUE

\* the same program, its traces not recorded
LiveInit == Start /\ track = FALSE

\* ---- main() -------------------------------------------------------------
\* the exit status of the process: sys.exit(0) gives 0, sys.exit(<string>)
\* and an exception nobody catches give 1; -1 while it runs
ExitStatus(reason) ==
  CASE reason = ""       -> -1
    [] reason = "exit 0" -> 0
    [] OTHER             -> 1

AfterRegister_Retry(ok) == IF ok THEN "args" ELSE "register"

\* if RegisterHub(...) != SUCCESS: sys.exit(...)
AfterRegister(ok) == IF ok THEN "args" ELSE "exited"

\* y_a.YAPI.RegisterHub("usb", errmsg), sys.exit on failure, time.sleep(2)
RegisterHub ==
  /\ mpc = "register"
  /\ \E ok \in BOOLEAN :
       /\ registered' = IF ok THEN "ok" ELSE "failed"
       /\ mpc' = AfterRegister(ok)
       /\ exitReason' = IF mpc' = "exited" THEN "RegisterHub error"
                        ELSE exitReason
  /\ UNCHANGED <<hw, track, cpc, serving, store, sensor_read_passes,
                 yapi_exceptions, request_time_count, locals, duration,
                 in_progress, cycles, scrapes, pre, preCounters, cycleWrites,
                 nReturned, nRaised, lastOutcome, calls, failed, emitted,
                 replay>>

\* the sys.argv block.  find_and_dump_info() only reads the device and
\* prints: it returns, or one of its reads raises and main() dies of it.
Args ==
  /\ mpc = "args"
  /\ \E arg \in {"", "debug", "dumpsensors"}, dumped \in BOOLEAN :
       IF arg = ""
       THEN mpc' = "preload" /\ exitReason' = exitReason
       ELSE IF ~dumped
       THEN /\ mpc' = "exited"
            /\ exitReason' = "YAPI_Exception in find_and_dump_info"
       ELSE IF arg = "debug"
       THEN mpc' = "preload" /\ exitReason' = exitReason
       ELSE mpc' = "exited" /\ exitReason' = "exit 0"
  /\ UNCHANGED <<hw, track, cpc, serving, store, sensor_read_passes,
                 yapi_exceptions, request_time_count, locals, duration,
                 in_progress, cycles, scrapes, hist>>

\* entering collect_gauges(): the Timer of request_time starts, start_time
Enter ==
  /\ cpc' = "first_module"
  /\ in_progress' = in_progress + 1
  /\ cycles' = cycles + 1
  /\ duration' = 0
  /\ pre' = Keep(store, pre)
  /\ preCounters' = Keep([passes |-> sensor_read_passes,
                          exceptions |-> yapi_exceptions,
                          requests |-> request_time_count], preCounters)
  /\ cycleWrites' = Empty
  /\ lastOutcome' = "running"
  /\ calls' = <<>>
  /\ failed' = NoCall
  /\ emitted' = <<>>
  /\ replay' = IF lastOutcome = "returned" THEN Keep(calls, <<>>) ELSE <<>>
  /\ UNCHANGED <<hw, track, exitReason, serving, store, sensor_read_passes,
                 yapi_exceptions, request_time_count, locals, scrapes,
                 registered, nReturned, nRaised>>

\* collect_gauges() before the HTTP server is started
Preload ==
  /\ mpc = "preload" /\ cpc = "idle"
  /\ cycles < MaxCycles
  /\ mpc' = "preload_call"
  /\ Enter

\* p_c.start_http_server(HTTP_PORT)
StartHttp ==
  /\ mpc = "start_http"
  /\ serving' = HTTP_PORT
  /\ mpc' = "sleep"
  /\ UNCHANGED <<hw, track, cpc, exitReason, store, sensor_read_passes,
                 yapi_exceptions, request_time_count, locals, duration,
                 in_progress, cycles, scrapes, hist>>

SleepAndCollect_Timer ==
  /\ mpc \in {"sleep", "loop_call"}
  /\ cycles < MaxCycles
  /\ mpc' = "loop_call"
  /\ Enter

\* time.sleep(5), then collect_gauges() inside the try
SleepAndCollect ==
  /\ mpc = "sleep" /\ cpc = "idle"
  /\ cycles < MaxCycles
  /\ mpc' = "loop_call"
  /\ Enter

\* except y_a.YAPI_Exception: yapi_exceptions.inc()
Except ==
  /\ mpc = "except"
  /\ yapi_exceptions' = Inc(yapi_exceptions)
  /\ mpc' = "sleep"
  /\ UNCHANGED <<hw, track, cpc, exitReason, serving, store,
                 sensor_read_passes, request_time_count, locals, duration,
                 in_progress, cycles, scrapes, hist>>

\* ---- leaving collect_gauges() -------------------------------------------
CatchPoint_NoTry(at) == "exited"

CatchPoint_Swallow(at) == IF at = "loop_call" THEN "except" ELSE "start_http"

\* where a YAPI_Exception out of collect_gauges() lands in main()
CatchPoint(at) == IF at = "loop_call" THEN "except" ELSE "exited"

Raise_Finally ==
  /\ request_time_count' = request_time_count + 1
  /\ in_progress' = in_progress - 1
  /\ cpc' = "idle"
  /\ mpc' = CatchPoint(mpc)
  /\ exitReason' = IF CatchPoint(mpc) = "exited"
                   THEN "YAPI_Exception in collect_gauges"
                   ELSE exitReason
  /\ nRaised' = nRaised + 1
  /\ lastOutcome' = "raised"
  /\ failed' = Keep([op |-> cpc, m |-> module, i |-> function_id], failed)
  /\ replay' = <<>>
  /\ sensor_read_passes' = Inc(sensor_read_passes)
  /\ ResetLocals
  /\ UNCHANGED <<hw, track, serving, store, yapi_exceptions, cycles, scrapes,
                 registered, pre, preCounters, cycleWrites, duration,
                 nReturned, calls, emitted>>

\* a device call raises: the Timer observes, the frame is left, and main()
\* either catches (inside the loop) or dies with the exception
Raise ==
  /\ request_time_count' = request_time_count + 1
  /\ in_progress' = in_progress - 1
  /\ cpc' = "idle"
  /\ mpc' = CatchPoint(mpc)
  /\ exitReason' = IF CatchPoint(mpc) = "exited"
                   THEN "YAPI_Exception in collect_gauges"
                   ELSE exitReason
  /\ nRaised' = nRaised + 1
  /\ lastOutcome' = "raised"
  /\ failed' = Keep([op |-> cpc, m |-> module, i |-> function_id], failed)
  /\ replay' = <<>>
  /\ ResetLocals
  /\ UNCHANGED <<hw, track, serving, store, sensor_read_passes,
                 yapi_exceptions, cycles, scrapes, registered, pre,
                 preCounters, cycleWrites, duration, nReturned, calls,
                 emitted>>

\* ---- collect_gauges() ---------------------------------------------------
frame == <<hw, track, mpc, exitReason, serving, sensor_read_passes,
           yapi_exceptions, request_time_count, in_progress, cycles, scrapes,
           registered, pre, preCounters, nReturned, nRaised, lastOutcome,
           failed>>

\* history: s is the beginning of t
IsPrefix(s, t) == Len(s) <= Len(t) /\ s = SubSeq(t, 1, Len(s))

\* the device call at the current statement returned r
Answer(r) ==
  LET call == [op |-> cpc, m |-> module, i |-> function_id, r |-> r] IN
  /\ calls' = Keep(Append(calls, call), calls)
  /\ replay' = IF IsPrefix(Append(calls, call), replay) THEN replay ELSE <<>>
  /\ emitted' = emitted

\* <gauge>.labels(...) of the statement that follows a device call that
\* returned value; .set(value) is the next step
Write(key, value, ret) ==
  /\ store' = LabelsOf(store, key)
  /\ w' = [key |-> key, value |-> value, ret |-> ret]
  /\ cpc' = "set"

\* the modules an enumeration can yield after the one at index i: any later
\* one (those between did not answer), or None
Following(i) == {j \in 1..Len(hw) : j > i} \cup {0}

While_LoopOnly(m) == IF m # 0 THEN "friendly_name" ELSE "inc_passes"

\* while module:
While(m) == IF m # 0 THEN "friendly_name" ELSE "finish"

\* module = y_a.YModule.FirstModule(); while module:
FirstModule ==
  /\ cpc = "first_module"
  /\ \/ /\ \E m \in Following(0) :
             module' = m /\ cpc' = While(m) /\ Answer(m)
        /\ UNCHANGED <<frame, store, cycleWrites, duration, module_name,
                       function_count, function_id, function_type, w>>
     \/ Raise

\* module_name = module.get_friendlyName()
FriendlyName ==
  /\ cpc = "friendly_name"
  /\ \/ /\ module_name' = hw[module].name
        /\ Answer(0)
        /\ cpc' = "usb_current"
        /\ UNCHANGED <<frame, store, cycleWrites, duration, module,
                       function_count, function_id, function_type, w>>
     \/ Raise

\* usb_current_value = module.get_usbCurrent(); usb_current.labels(...)
UsbCurrent ==
  /\ cpc = "usb_current"
  /\ \/ /\ \E v \in Values :
             Write(UsbCurrentKey(module_name), v, "luminosity") /\ Answer(v)
        /\ UNCHANGED <<frame, cycleWrites, duration, module, module_name,
                       function_count, function_id, function_type>>
     \/ Raise

\* luminosity_value = module.get_luminosity(); luminosity.labels(...)
Luminosity ==
  /\ cpc = "luminosity"
  /\ \/ /\ \E v \in Values :
             Write(LuminosityKey(module_name), v, "function_count")
             /\ Answer(v)
        /\ UNCHANGED <<frame, cycleWrites, duration, module, module_name,
                       function_count, function_id, function_type>>
     \/ Raise

\* function_count = module.functionCount(); for function_id in range(1, ...)
FunctionCount ==
  /\ cpc = "function_count"
  /\ \/ /\ function_count' = Len(hw[module].types)
        /\ Answer(Len(hw[module].types))
        /\ function_id' = RangeStart
        /\ cpc' = ForNext(RangeStart, Len(hw[module].types))
        /\ UNCHANGED <<frame, store, cycleWrites, duration, module,
                       module_name, function_type, w>>
     \/ Raise

\* function_type = module.functionType(function_id); a type none of the four
\* ifs matches ends the loop body.  Index i of the API is types[i + 1].
FunctionType ==
  /\ cpc = "function_type"
  /\ \/ /\ LET t == hw[module].types[function_id + 1] IN
             IF t \in Supported
             THEN /\ function_type' = t
                  /\ cpc' = "function_value"
                  /\ function_id' = function_id
             ELSE /\ function_type' = ""
                  /\ function_id' = function_id + 1
                  /\ cpc' = ForNext(function_id + 1, function_count)
        /\ Answer(0)
        /\ UNCHANGED <<frame, store, cycleWrites, duration, module,
                       module_name, function_count, w>>
     \/ Raise

\* <type>_value = module.functionValue(function_id); <type>.labels(...)
FunctionValue ==
  /\ cpc = "function_value"
  /\ \/ /\ \E v \in Values :
             Write(FunctionKey(function_type, module_name), v, "for_next")
             /\ Answer(v)
        /\ UNCHANGED <<frame, cycleWrites, duration, module, module_name,
                       function_count, function_id, function_type>>
     \/ Raise

\* .set(value), and on to the next statement
Set ==
  /\ cpc = "set"
  /\ store' = SetOf(store, w.key, w.value)
  /\ cycleWrites' = Keep(Record(cycleWrites, w.key, w.value), cycleWrites)
  /\ emitted' = Keep(Append(emitted, <<module, w.key, w.value>>), emitted)
  /\ UNCHANGED <<calls, replay>>
  /\ w' = NoWrite
  /\ IF w.ret = "for_next"
     THEN /\ function_id' = function_id + 1
          /\ function_type' = ""
          /\ cpc' = ForNext(function_id + 1, function_count)
     ELSE /\ function_id' = function_id
          /\ function_type' = function_type
          /\ cpc' = w.ret
  /\ UNCHANGED <<frame, duration, module, module_name, function_count>>

\* module = module.nextModule(); while module:
NextModule ==
  /\ cpc = "next_module"
  /\ \/ /\ \E m \in Following(module) :
             module' = m /\ cpc' = While(m) /\ Answer(m)
        /\ module_name' = ""
        /\ function_count' = 0
        /\ function_id' = 0
        /\ function_type' = ""
        /\ UNCHANGED <<frame, store, cycleWrites, duration, w>>
     \/ Raise

\* end_time = time.time(); sensor_read_time_value = end_time - start_time;
\* sensor_read_time.labels(unit='s')
Finish ==
  /\ cpc = "finish"
  /\ \E d \in Durations :
       /\ duration' = d
       /\ Write(ReadTimeKey, d, "inc_passes")
  /\ UNCHANGED <<frame, cycleWrites, module, module_name, function_count,
                 function_id, function_type, calls, emitted, replay>>

\* where main() goes on when collect_gauges() returns
ReturnPoint(at) == IF at = "preload_call" THEN "start_http" ELSE "sleep"

\* sensor_read_passes.inc(), the Timer observes, return
IncPasses ==
  /\ cpc = "inc_passes"
  /\ sensor_read_passes' = Inc(sensor_read_passes)
  /\ request_time_count' = request_time_count + 1
  /\ in_progress' = in_progress - 1
  /\ cpc' = "idle"
  /\ mpc' = ReturnPoint(mpc)
  /\ nReturned' = nReturned + 1
  /\ lastOutcome' = "returned"
  /\ ResetLocals
  /\ UNCHANGED <<hw, track, exitReason, serving, store, yapi_exceptions,
                 duration, cycles, scrapes, registered, pre, preCounters,
                 cycleWrites, nRaised, calls, failed, emitted, replay>>

\* ---- the HTTP thread ----------------------------------------------------
\* what a scrape answers: every child of every gauge with its value now, the
\* counters, and the count of the request_processing_seconds Summary
Exposition ==
  [gauges |-> store, passes |-> sensor_read_passes,
   exceptions |-> yapi_exceptions, requests |-> request_time_count]

\* one GET /metrics, answered from the live registry
Scrape ==
  /\ serving # 0
  /\ mpc # "exited"
  /\ scrapes < MaxScrapes
  /\ scrapes' = scrapes + 1
  /\ UNCHANGED <<hw, track, mpc, cpc, exitReason, serving, store,
                 sensor_read_passes, yapi_exceptions, request_time_count,
                 locals, duration, in_progress, cycles, hist>>

Main == RegisterHub \/ Args \/ Preload \/ StartHttp \/ SleepAndCollect \/ Except

Collect ==
  \/ FirstModule \/ FriendlyName \/ UsbCurrent \/ Luminosity \/ FunctionCount
  \/ FunctionType \/ FunctionValue \/ Set \/ NextModule \/ Finish \/ IncPasses

Next == Main \/ Collect \/ Scrape

Spec == Init /\ [][Next]_vars

\* main() is the only thread of the collection loop and nothing blocks it but
\* time.sleep and the device calls, which return or raise
LiveSpec == LiveInit /\ [][Next]_vars /\ WF_vars(Main \/ Collect)

\* ---- properties ---------------------------------------------------------
SensorKeys(s) == {k \in DOMAIN s : k[1] \in SensorMetrics}

\* the value of series k in s, -1 when s has no such child
Held(s, k) == IF k \in DOMAIN s THEN s[k] ELSE -1

\* the latest invocation raised and main() caught it
Aborted == lastOutcome = "raised" /\ mpc # "exited"

\* C1 as stated: after a cycle in which a device call raised, every
\* sensor-value series holds exactly what it held when the cycle began; no
\* write of the aborted cycle is visible.
C1_NoPartialOverwrite ==
  Aborted =>
    \A k \in SensorKeys(store) \cup SensorKeys(pre) : Held(store, k) = Held(pre, k)

\* C1 amended: after a cycle in which a device call raised, every sensor-value
\* series the cycle did not set before the failing call holds exactly what it
\* held when the cycle began, and every series it did set holds the value the
\* cycle set last; the writes made before the failure stay visible.
C1_AbortKeepsUnwritten ==
  lastOutcome = "raised" =>
    \A k \in SensorKeys(store) \cup SensorKeys(pre) \cup SensorKeys(cycleWrites) :
      Held(store, k) = IF k \in DOMAIN cycleWrites THEN cycleWrites[k]
                       ELSE Held(pre, k)

\* an aborted periodic cycle that overwrote one series with a new value and
\* left another one alone
C1_Witness ==
  /\ Aborted
  /\ \E k \in SensorKeys(cycleWrites) :
       k \in DOMAIN pre /\ pre[k] # cycleWrites[k]
  /\ \E k \in SensorKeys(pre) : k \notin DOMAIN cycleWrites

\* C2 as stated: the process never ends because a device call raised during a
\* cycle, the cycle before the HTTP server starts included.
C2_NoExitOnDeviceError ==
  ~(mpc = "exited" /\ exitReason = "YAPI_Exception in collect_gauges")

\* C3 as stated: when no cycle is running, sensor_read_passes is the number
\* of collect_gauges() invocations that returned or raised.
C3_PassesCountAttempts ==
  (in_progress = 0 /\ mpc # "exited") =>
    sensor_read_passes = nReturned + nRaised

\* C3 amended: sensor_read_passes is the number of collect_gauges()
\* invocations that returned; an invocation that raises leaves it unchanged.
C3_PassesCountReturned ==
  /\ sensor_read_passes = nReturned
  /\ in_progress = 0 => request_time_count = sensor_read_passes + nRaised

\* a periodic cycle raised after two had returned
C3_Witness == Aborted /\ nRaised = 1 /\ sensor_read_passes = 2

\* C4 as stated: once main() has dealt with the latest cycle, yapi_exceptions
\* is the number of cycles that raised, the first cycle included.
C4_ExceptionsCountRaised ==
  (in_progress = 0 /\ mpc # "except") => yapi_exceptions = nRaised

\* C5: a cycle that raised leaves sensor_read_time as it was when the cycle
\* began, and a cycle that returned leaves it at that cycle's duration.
C5_ReadTime ==
  /\ lastOutcome = "raised" => Held(store, ReadTimeKey) = Held(pre, ReadTimeKey)
  /\ lastOutcome = "returned" => Held(store, ReadTimeKey) = duration

\* a periodic cycle raised after it had set a sensor series, with the
\* duration of an earlier cycle still published
C5_Witness ==
  /\ Aborted
  /\ cycleWrites # Empty
  /\ Held(store, ReadTimeKey) = 2
  /\ yapi_exceptions = 1

\* C6: no step lowers sensor_read_passes or yapi_exceptions.
C6_Monotonic ==
  [][/\ sensor_read_passes' >= sensor_read_passes
     /\ yapi_exceptions' >= yapi_exceptions]_vars

\* both counters have moved
C6_Witness == sensor_read_passes = 2 /\ yapi_exceptions = 1

\* C7: once the HTTP server is up, whenever no cycle is running (the latest
\* one returned or raised) and the bound on cycles is not reached, another
\* cycle is eventually invoked.
C7_LoopNeverStops ==
  (serving # 0 /\ in_progress = 0 /\ cycles < MaxCycles) ~> (in_progress = 1)

\* two periodic cycles in a row raised and the loop is waiting again
C7_Witness == yapi_exceptions = 2 /\ mpc = "sleep" /\ serving # 0

\* C8: while the HTTP server is up, one pass has been counted and
\* sensor_read_time holds a measured duration.
C8_ServingAfterFirstCycle ==
  serving # 0 =>
    /\ sensor_read_passes >= 1
    /\ ReadTimeKey \in DOMAIN store
    /\ store[ReadTimeKey] \in Durations

\* a scrape was answered when only the first cycle had run
C8_Witness == serving # 0 /\ scrapes = 1 /\ cycles = 1

\* C9: at most one collect_gauges() invocation is in progress, and none is
\* while main() sleeps, handles the exception or starts the server.
C9_OneCycleAtATime ==
  /\ in_progress \in {0, 1}
  /\ in_progress = 1 <=> cpc # "idle"
  /\ mpc \in {"sleep", "except", "start_http"} => in_progress = 0

\* the third cycle runs
C9_Witness == in_progress = 1 /\ cycles = 3 /\ mpc = "loop_call"

\* C10 as stated: a scrape shows each sensor series either at the value it
\* had when the running cycle began or at a value that cycle has set on it.
C10_ScrapeSeesPreOrWritten ==
  [][scrapes' # scrapes =>
       \A k \in SensorKeys(Exposition.gauges) :
         \/ Exposition.gauges[k] = Held(pre, k)
         \/ k \in DOMAIN cycleWrites /\ Exposition.gauges[k] = cycleWrites[k]]_vars

\* the modules the latest invocation's enumeration has yielded so far
Enumerated ==
  {calls[n].r : n \in {x \in DOMAIN calls :
                         calls[x].op \in {"first_module", "next_module"}}}
    \ {0}

\* the series a module can own
ModuleKeys(j) ==
  {UsbCurrentKey(hw[j].name), LuminosityKey(hw[j].name)}
    \cup {FunctionKey(t, hw[j].name) : t \in Supported}

\* C11: a series, once in the store, is in the store in every later state, and
\* the series of a module that the latest cycle's enumeration did not yield
\* hold the values they had when that cycle began.
C11_NoExpiry ==
  /\ [][DOMAIN store \subseteq DOMAIN store']_vars
  /\ [](\A j \in DOMAIN hw \ Enumerated :
          \A k \in ModuleKeys(j) \cap DOMAIN pre :
            k \in DOMAIN store /\ store[k] = pre[k])

\* module a was published, then a whole cycle saw only module b
C11_Witness ==
  /\ lastOutcome = "returned" /\ nReturned = 2
  /\ Len(hw) = 2 /\ Enumerated = {2}
  /\ UsbCurrentKey("a") \in DOMAIN pre
  /\ UsbCurrentKey("b") \in DOMAIN store
  /\ store[UsbCurrentKey("a")] = 2

\* the latest invocation returned, right after one that returned, and every
\* device call answered it what it answered that one
Repeated ==
  /\ in_progress = 0 /\ lastOutcome = "returned"
  /\ replay # <<>> /\ replay = calls

\* the gauges other than sensor_read_time are what they were at entry
SameGauges ==
  /\ DOMAIN store = DOMAIN pre
  /\ \A k \in DOMAIN store \ {ReadTimeKey} : store[k] = pre[k]

\* C12 as stated: after two successful cycles in succession with the same
\* device answers, what the endpoint publishes is what it published after the
\* first, except for sensor_read_time and sensor_read_passes.
C12_Idempotent ==
  Repeated =>
    /\ SameGauges
    /\ Exposition.exceptions = preCounters.exceptions
    /\ Exposition.requests = preCounters.requests

\* C12 amended: the same, except also for the request_processing_seconds
\* Summary, which counts one more observation.
C12_IdempotentButSummary ==
  Repeated =>
    /\ SameGauges
    /\ Exposition.exceptions = preCounters.exceptions
    /\ Exposition.passes = preCounters.passes + 1
    /\ Exposition.requests = preCounters.requests + 1

\* a repeated cycle that rewrote a sensor value of 2 and took another time
C12_Witness ==
  /\ Repeated
  /\ \E k \in SensorKeys(store) : pre[k] = 2 /\ Held(cycleWrites, k) = 2
  /\ store[ReadTimeKey] # pre[ReadTimeKey]

\* the set() calls the latest invocation made for module j
EmittedFor(j) == {n \in DOMAIN emitted : emitted[n][1] = j}

\* the function indices of module j from 1 up whose type is one of the four
ExportedIndices(j) ==
  {i \in 1..(Len(hw[j].types) - 1) :
     hw[j].types[i + 1] \in {"Temperature", "Pressure", "Humidity",
                             "LightSensor"}}

\* C13: a cycle that returns has emitted, for every module it enumerated,
\* exactly 2 + (number of indices 1..N-1 of a supported type) series, which is
\* 2 for a module without functions; and no cycle ever reads the type or the
\* value of function index 0.
C13_SeriesPerModule ==
  /\ lastOutcome = "returned" =>
       \A j \in Enumerated :
         Cardinality(EmittedFor(j)) = 2 + Cardinality(ExportedIndices(j))
  /\ \A n \in DOMAIN calls :
       calls[n].op \in {"function_type", "function_value"} => calls[n].i >= 1

\* four functions, of which index 0 is a Temperature and index 2 a button:
\* two of them exported, four series
C13_Witness ==
  /\ lastOutcome = "returned" /\ Enumerated = {1}
  /\ Len(hw[1].types) = 4 /\ hw[1].types[1] = "Temperature"
  /\ Cardinality(EmittedFor(1)) = 4

\* the series the claim names for a value read c of the device
SeriesOf(c) ==
  LET name == hw[c.m].name
      type == IF c.op = "function_value" THEN hw[c.m].types[c.i + 1] ELSE ""
  IN CASE c.op = "usb_current" ->
            <<"usb_current",
              [hardware_id |-> name \o ".current", unit |-> "mA"]>>
       [] c.op = "luminosity" ->
            <<"luminosity",
              [hardware_id |-> name \o ".luminosity", unit |-> "%"]>>
       [] type = "Temperature" ->
            <<"temperature",
              [hardware_id |-> name \o ".temperature", unit |-> "Celsius"]>>
       [] type = "Pressure" ->
            <<"pressure",
              [hardware_id |-> name \o ".pressure", unit |-> "mbar"]>>
       [] type = "Humidity" ->
            <<"humidity",
              [hardware_id |-> name \o ".humidity", unit |-> "% RH"]>>
       [] type = "LightSensor" ->
            <<"light", [hardware_id |-> name \o ".light", unit |-> "lux"]>>
       [] OTHER -> <<"none", [unit |-> ""]>>

IsValueRead(c) == c.op \in {"usb_current", "luminosity", "function_value"}
IsSensorWrite(e) == e[2] # ReadTimeKey

\* the value reads of the latest invocation, each as the write the claim
\* expects of it
ExpectedWrites ==
  LET reads == SelectSeq(calls, IsValueRead)
  IN [n \in 1..Len(reads) |->
        <<reads[n].m, SeriesOf(reads[n]), reads[n].r>>]

\* the indices of module j whose type, resp. value, the latest invocation read
TypeReadAt(j) ==
  {calls[n].i : n \in {x \in DOMAIN calls :
                         calls[x].op = "function_type" /\ calls[x].m = j}}
ValueReadAt(j) ==
  {calls[n].i : n \in {x \in DOMAIN calls :
                         calls[x].op = "function_value" /\ calls[x].m = j}}

\* C14: the writes to sensor series are, in order, one per value read: the
\* module's usb_current and luminosity, and for a function of one of the four
\* types the series of that type, each with the hardware_id and unit the claim
\* gives and the value read.  A function of another type has no value read
\* and no write, and the cycle goes on past it: a cycle that returns has read
\* the type of every index from 1 up and the value of the supported ones.
C14_TypeToSeries ==
  /\ cpc # "set" => SelectSeq(emitted, IsSensorWrite) = ExpectedWrites
  /\ lastOutcome = "returned" =>
       \A j \in Enumerated :
         /\ TypeReadAt(j) = 1..(Len(hw[j].types) - 1)
         /\ ValueReadAt(j) = ExportedIndices(j)

\* a module with a pressure sensor, a button and a light sensor after index
\* 0: pressure and light are published, the button and index 0 are not
C14_Witness ==
  /\ lastOutcome = "returned" /\ Enumerated = {1}
  /\ hw[1].types = <<"Temperature", "Pressure", "AnButton", "LightSensor">>
  /\ Held(store, <<"pressure",
                   [hardware_id |-> "a.pressure", unit |-> "mbar"]>>) = 2
  /\ Held(store, <<"light", [hardware_id |-> "a.light", unit |-> "lux"]>>) = 1
  /\ Held(store, <<"usb_current",
                   [hardware_id |-> "a.current", unit |-> "mA"]>>) = 1
  /\ Held(store, <<"luminosity",
                   [hardware_id |-> "a.luminosity", unit |-> "%"]>>) = 2
  /\ DOMAIN store \ {ReadTimeKey} = {emitted[n][2] : n \in 1..4}
  /\ Len(emitted) = 5

\* the indices of module j from 1 up whose type is t
IndicesOfType(j, t) ==
  {i \in 1..(Len(hw[j].types) - 1) : hw[j].types[i + 1] = t}

Highest(S) == CHOOSE i \in S : \A x \in S : x <= i

\* the call of the latest invocation that read the value of index i of j
ValueCall(j, i) ==
  calls[CHOOSE n \in DOMAIN calls :
          calls[n].op = "function_value" /\ calls[n].m = j /\ calls[n].i = i]

\* C15: after a cycle that returned, the series of a supported type that one
\* or more indices >= 1 of an enumerated module report holds the value read
\* at the highest of those indices, and all of them wrote that one series.
C15_LastIndexWins ==
  lastOutcome = "returned" =>
    \A j \in Enumerated :
      \A t \in {"Temperature", "Pressure", "Humidity", "LightSensor"} :
        IndicesOfType(j, t) # {} =>
          /\ \A i \in IndicesOfType(j, t) :
               SeriesOf(ValueCall(j, i))
                 = SeriesOf(ValueCall(j, Highest(IndicesOfType(j, t))))
          /\ Held(store, SeriesOf(ValueCall(j, Highest(IndicesOfType(j, t)))))
               = ValueCall(j, Highest(IndicesOfType(j, t))).r

\* two Temperature functions: index 1 read 2, index 2 read 1, 1 is published
C15_Witness ==
  /\ lastOutcome = "returned" /\ Enumerated = {1}
  /\ IndicesOfType(1, "Temperature") = {1, 2}
  /\ ValueCall(1, 1).r = 2 /\ ValueCall(1, 2).r = 1
  /\ store[<<"temperature",
             [hardware_id |-> "a.temperature", unit |-> "Celsius"]>>] = 1

\* the latest invocation returned and its enumeration yielded no module
EmptyCycle == lastOutcome = "returned" /\ Enumerated = {}

\* C16: a cycle whose enumeration yields no module returns: it counts one
\* more pass and no exception, sets sensor_read_time to the time it took, and
\* leaves the sensor series as they were when it began.
C16_EmptyEnumeration ==
  EmptyCycle =>
    /\ sensor_read_passes = preCounters.passes + 1
    /\ yapi_exceptions = preCounters.exceptions
    /\ failed = NoCall
    /\ emitted = <<(<<0, ReadTimeKey, duration>>)>>
    /\ Held(store, ReadTimeKey) = duration
    /\ SensorKeys(store) = SensorKeys(pre)
    /\ \A k \in SensorKeys(store) : store[k] = pre[k]

\* a module was published by the cycle before, and none is there now
C16_Witness ==
  /\ EmptyCycle /\ nReturned = 2
  /\ UsbCurrentKey("a") \in DOMAIN pre
  /\ pre[ReadTimeKey] # store[ReadTimeKey]

\* C17: once RegisterHub has failed the process has exited with a non-zero
\* status and the RegisterHub diagnostic, no collect_gauges() call was made
\* or is running, and the HTTP server was not started.
C17_RegisterFailureFatal ==
  registered = "failed" =>
    /\ mpc = "exited" /\ exitReason = "RegisterHub error"
    /\ ExitStatus(exitReason) # 0
    /\ cycles = 0 /\ in_progress = 0 /\ cpc = "idle"
    /\ nReturned + nRaised = 0 /\ request_time_count = 0
    /\ serving = 0 /\ store = Empty

C17_Witness == registered = "failed" /\ mpc = "exited"

\* C18: whenever no collect_gauges() call is in progress and no exception is
\* waiting for its handler, sensor_read_passes + yapi_exceptions is the number
\* of calls that have ended, returned or raised.
C18_CounterAccounting ==
  (in_progress = 0 /\ mpc # "except") =>
    sensor_read_passes + yapi_exceptions = nReturned + nRaised

\* a device call without what it answered; the index counts for the calls
\* on a function only
Sig(op, m, i) == [op |-> op, m |-> m, i |-> i]
SigOf(c) ==
  Sig(c.op, c.m,
      IF c.op \in {"function_type", "function_value"} THEN c.i ELSE 0)

\* the read order within module j from function index i on: the type of
\* each index, and the value of those of a supported type
RECURSIVE FunctionReads(_, _)
FunctionReads(j, i) ==
  IF i >= Len(hw[j].types) THEN <<>>
  ELSE <<Sig("function_type", j, i)>>
         \o (IF i \in ExportedIndices(j)
             THEN <<Sig("function_value", j, i)>> ELSE <<>>)
         \o FunctionReads(j, i + 1)

\* the read order of module j: name, usb_current, luminosity, the functions
\* by ascending index from 1, then the enumeration's next step
ModuleReads(j) ==
  <<Sig("friendly_name", j, 0), Sig("usb_current", j, 0),
    Sig("luminosity", j, 0), Sig("function_count", j, 0)>>
    \o FunctionReads(j, 1) \o <<Sig("next_module", j, 0)>>

\* the modules the latest invocation's enumeration yielded, in that order
Yielded ==
  LET steps == SelectSeq(calls, LAMBDA c :
                 c.op \in {"first_module", "next_module"} /\ c.r # 0)
  IN [n \in 1..Len(steps) |-> steps[n].r]

RECURSIVE ReadsOf(_)
ReadsOf(ms) ==
  IF ms = <<>> THEN <<>> ELSE ModuleReads(Head(ms)) \o ReadsOf(Tail(ms))

\* the read order of the latest invocation over the modules it was given
ReadOrder == <<Sig("first_module", 0, 0)>> \o ReadsOf(Yielded)

\* the calls of the latest invocation, the one that raised last
Attempted ==
  [n \in 1..Len(calls) |-> SigOf(calls[n])]
    \o (IF failed = NoCall THEN <<>> ELSE <<SigOf(failed)>>)

\* the series set by the reads that completed
CompletedSeries ==
  {SeriesOf(calls[n]) : n \in {x \in DOMAIN calls : IsValueRead(calls[x])}}

\* the series the failing read and the reads after it in the read order
\* would have set
PendingSeries(order) ==
  {SeriesOf(order[n]) :
     n \in {x \in (Len(calls) + 1)..Len(order) : IsValueRead(order[x])}}

\* the reads made are a beginning of the read order, and only series set by
\* completed reads differ from what they held when the cycle began
PrefixWritten(order, completed) ==
  /\ IsPrefix(Attempted, order)
  /\ \A k \in DOMAIN store \cup DOMAIN pre \cup PendingSeries(order) :
       k \notin completed => Held(store, k) = Held(pre, k)

\* C19 as stated: moreover every series the failing read or a later one
\* would have written is unchanged.
C19_LaterSeriesUnchanged ==
  lastOutcome = "raised" =>
    LET order == ReadOrder
        completed == CompletedSeries
    IN /\ PrefixWritten(order, completed)
       /\ \A k \in PendingSeries(order) : Held(store, k) = Held(pre, k)

\* C19 amended: every series that only the failing read or a later one would
\* have written is unchanged; one that a completed read set too holds the
\* value of the last completed read that set it.
C19_PrefixOfReadOrder ==
  lastOutcome = "raised" =>
    LET order == ReadOrder
        completed == CompletedSeries
        reads == SelectSeq(calls, IsValueRead)
        series == [n \in DOMAIN reads |-> SeriesOf(reads[n])]
    IN /\ PrefixWritten(order, completed)
       /\ \A k \in PendingSeries(order) :
            k \notin completed => Held(store, k) = Held(pre, k)
       /\ \A n \in DOMAIN reads :
            (\A x \in (n + 1)..Len(reads) : series[x] # series[n])
              => Held(store, series[n]) = reads[n].r

\* the pressure read raised after usb_current and luminosity were rewritten;
\* pressure and light keep the values of the cycle before
C19_Witness ==
  /\ lastOutcome = "raised" /\ failed = Sig("function_value", 1, 1)
  /\ hw[1].types = <<"Temperature", "Pressure", "AnButton", "LightSensor">>
  /\ Cardinality(PendingSeries(ReadOrder)) = 2
  /\ \A k \in PendingSeries(ReadOrder) : k \in DOMAIN pre /\ store[k] = pre[k]
  /\ \E k \in CompletedSeries : k \in DOMAIN pre /\ store[k] # pre[k]

====
